---- MODULE Spec2Model ----
(***************************************************************************)
(* Model of src/app.py (DataPilot AI): a Streamlit script that is re-run   *)
(* from top to bottom on every user interaction.  The session state        *)
(* (st.session_state.df, st.session_state.messages) survives between runs; *)
(* everything else is recomputed by the run.                               *)
(*                                                                         *)
(* One run is the sequence of blocks                                       *)
(*   config (17-23) -> upload (107-120) -> sample (123-126) -> main        *)
(*   (129-178)                                                             *)
(* and ends in "done", in "stopped" (st.stop()) or in "crashed" (an        *)
(* exception that no handler of the script catches).                       *)
(*                                                                         *)
(* The generated code is modelled by its effect on local_vars and by       *)
(* whether it raises an Exception; it is assumed not to touch              *)
(* st.session_state itself.                                                *)
(***************************************************************************)
EXTENDS Integers, Sequences, FiniteSets, TLC

\* Bound of the model: a question is only asked while the transcript has
\* room for the user record and the assistant record.
MaxMessages == 4

\* ---------------------------------------------------------------- values

\* Python's None.
None == "None"

\* uploaded_file is None: nothing selected in the uploader.
NoFile == [ext |-> "none", content |-> "none"]

\* Files the uploader can hold: the name's extension (type=["csv","xlsx"])
\* and what the bytes really are.
Files == [ext : {"csv", "xlsx"}, content : {"csvdata", "xlsxdata", "garbage"}]

\* pd.read_csv / pd.read_excel, chosen by the extension: the parse succeeds
\* when the bytes are of the format the extension announces, raises otherwise.
Readable(f) ==
    \/ f.ext = "csv" /\ f.content = "csvdata"
    \/ f.ext = "xlsx" /\ f.content = "xlsxdata"

\* The table read from an uploaded file.
TableOf(f) == IF f.ext = "csv" THEN "table_csv" ELSE "table_xlsx"

\* The table read from sample_data.csv.
SampleTable == "table_sample"

\* Questions typed into st.chat_input.
Questions == {"q1", "q2"}

\* Texts are sequences of tokens: a backtick, the word python, a newline
\* (whitespace) and a run of code characters.
BT == "backtick"
PY == "python"
NL == "nl"
CODE == "code"

IsSpace(t) == t = NL

\* response.text of the model: bare code, code wrapped in whitespace, a
\* fence of three backticks and python, a bare fence, and the empty text.
Replies ==
    { <<CODE>>,
      <<NL, CODE, NL>>,
      <<BT, BT, BT, PY, NL, CODE, NL, BT, BT, BT>>,
      <<BT, BT, BT, NL, CODE, NL, BT, BT, BT>>,
      <<>> }

\* str.strip(): drop leading and trailing whitespace.
RECURSIVE LStrip(_)
LStrip(s) ==
    IF s # <<>> /\ IsSpace(Head(s)) THEN LStrip(Tail(s)) ELSE s

RECURSIVE RStrip(_)
RStrip(s) ==
    IF s # <<>> /\ IsSpace(s[Len(s)]) THEN RStrip(SubSeq(s, 1, Len(s) - 1)) ELSE s

Strip(s) == RStrip(LStrip(s))

\* str.replace(old, empty): remove the non-overlapping occurrences of old, left
\* to right.
RECURSIVE Remove(_, _)
Remove(s, old) ==
    IF Len(s) < Len(old) THEN s
    ELSE IF SubSeq(s, 1, Len(old)) = old
         THEN Remove(SubSeq(s, Len(old) + 1, Len(s)), old)
         ELSE <<Head(s)>> \o Remove(Tail(s), old)

\* response.text.strip(), then replace(fence + python, empty), then
\* replace(fence, empty), the fence being three backticks.
CleanReply(text) ==
    Remove(Remove(Strip(text), <<BT, BT, BT, PY>>), <<BT, BT, BT>>)

\* What the generated code leaves in a slot of local_vars: nothing, a
\* truthy object (a plotly figure in fig, a value in result) or an object
\* that is not None but falsy (0, an empty list, ...).
SlotValues == {"unset", "object", "falsy"}

\* Outcomes of exec(code, {}, local_vars): the slots after the run and
\* whether an Exception escaped the code.
ExecOutcomes == [fig : SlotValues, result : SlotValues, raised : BOOLEAN]

\* Mutant: get() with an empty-string default instead of None.
GetDefaultEmpty(slot) == IF slot = "unset" THEN "falsy" ELSE slot

\* local_vars.get(name, None)
Get(slot) == IF slot = "unset" THEN None ELSE slot

\* Python truthiness of a slot value read back with get().
Truthy(v) == v = "object"

\* The texts get_ai_response / execute_code put in the second position (the
\* exception message that follows the colon is left out).
ModelErrorText == "An error occurred with the AI model"
ExecErrorText == "Error executing code"

\* The summaries stored in the assistant record.
ChartSummary == "Here is the visualization you requested."
ResultSummary == "I've completed the calculation for you."
FailureSummary ==
    "I couldn't complete that request. Please try rephrasing or asking something else."

\* ---------------------------------------------------------- pure functions

\* Mutant: the code is returned stripped instead of as executed.
execute_code_stripped(code, outcome) ==
    IF outcome.raised
    THEN <<None, ExecErrorText, Strip(code)>>
    ELSE <<Get(outcome.fig), Get(outcome.result), Strip(code)>>

\* execute_code(code, df): a triple in both branches.
execute_code(code, outcome) ==
    IF outcome.raised
    THEN <<None, ExecErrorText, code>>
    ELSE <<Get(outcome.fig), Get(outcome.result), code>>

\* What the remote call gives: generate_content or the read of response.text
\* raises, or response.text is one of the replies.
Generations ==
    {[raised |-> TRUE, text |-> <<>>]} \cup [raised : {FALSE}, text : Replies]

\* The text handed to execute_code, and by it to exec (lines 67-68, 82).
code_to_execute(gen) == CleanReply(gen.text)

\* get_ai_response(df, user_query): the try body returns what execute_code
\* returns, the except clause returns a pair.
get_ai_response(gen, outcome) ==
    IF gen.raised
    THEN <<None, ModelErrorText>>
    ELSE execute_code(code_to_execute(gen), outcome)

\* Mutant: the result slot is tested before the chart slot.
BranchResultFirst(fig, result) ==
    IF result # None THEN "result"
    ELSE IF Truthy(fig) THEN "chart"
    ELSE "failure"

\* The if / elif / else of the chat turn handler.
Branch(fig, result) ==
    IF Truthy(fig) THEN "chart"
    ELSE IF result # None THEN "result"
    ELSE "failure"

\* ai_response_content per branch.
Summary(branch) ==
    CASE branch = "chart" -> ChartSummary
      [] branch = "result" -> ResultSummary
      [] OTHER -> FailureSummary

\* What the branch puts on the page.
Rendered(branch) ==
    CASE branch = "chart" -> {"st.plotly_chart"}
      [] branch = "result" -> {"st.write:result"}
      [] OTHER -> {"st.error:turn"}

\* Mutant: the load forgets to reset the transcript.
KeepTranscriptAfterLoad(old) == old

\* st.session_state.messages = [] after a successful load (lines 117, 126).
TranscriptAfterLoad(old) == <<>>

\* Message records.  Every record has the same fields so that records can be
\* compared; a user record has no code key, modelled by hasCode = FALSE.
UserRecord(q) ==
    [role |-> "user", content |-> q, hasCode |-> FALSE, code |-> <<>>]

AssistantRecord(content, code) ==
    [role |-> "assistant", content |-> content, hasCode |-> TRUE, code |-> code]

\* ------------------------------------------------------------------- state

VARIABLES
    hasKey,      \* st.secrets has "google_api_key"
    sampleOk,    \* sample_data.csv can be read
    uploaded,    \* the file held by st.file_uploader
    df,          \* st.session_state.df
    messages,    \* st.session_state.messages
    pc,          \* position of the script run
    trigger,     \* the interaction that started the run
    prompt,      \* value of st.chat_input in this run
    widgets,     \* widgets rendered by the latest run
    events,      \* calls and page output of the current run
    executed,    \* texts passed to exec in the current run
    local_vars,  \* fig / result slots after exec in the current run
    prior        \* st.session_state (df, messages) when the run started

vars == <<hasKey, sampleOk, uploaded, df, messages, pc, trigger, prompt,
          widgets, events, executed, local_vars, prior>>

NoLocals == [fig |-> "unset", result |-> "unset"]

Terminal == {"done", "stopped", "crashed"}

\* First run of a session; lines 99-102 give messages = [] and df = None.
Init ==
    /\ hasKey \in BOOLEAN
    /\ sampleOk \in BOOLEAN
    /\ uploaded = NoFile
    /\ df = None
    /\ messages = <<>>
    /\ pc = "config"
    /\ trigger = "none"
    /\ prompt = None
    /\ widgets = {}
    /\ events = {}
    /\ executed = <<>>
    /\ local_vars = NoLocals
    /\ prior = [df |-> None, messages |-> <<>>]

\* --------------------------------------------------------- between the runs

\* A new script run starts at the top with a clean page.
StartRun(trig, q) ==
    /\ pc \in Terminal
    /\ pc' = "config"
    /\ trigger' = trig
    /\ prompt' = q
    /\ widgets' = {}
    /\ events' = {}
    /\ executed' = <<>>
    /\ local_vars' = NoLocals
    /\ prior' = [df |-> df, messages |-> messages]
    /\ UNCHANGED <<hasKey, sampleOk, df, messages>>

\* The user selects, replaces or removes the file in the uploader.
ChangeFile ==
    /\ "uploader" \in widgets
    /\ \E f \in Files \cup {NoFile} :
          /\ f # uploaded
          /\ uploaded' = f
    /\ StartRun("upload", None)

\* The user clicks "Load Sample Data".
ClickSample ==
    /\ "button" \in widgets
    /\ UNCHANGED uploaded
    /\ StartRun("sample", None)

\* The user submits a question in the chat input.
SubmitChat ==
    /\ "chat_input" \in widgets
    /\ Len(messages) + 2 <= MaxMessages
    /\ UNCHANGED uploaded
    /\ \E q \in Questions : StartRun("chat", q)

\* A rerun without any widget interaction.
Rerun ==
    /\ UNCHANGED uploaded
    /\ StartRun("none", None)

\* The secrets of the deployment are edited between two runs.
SecretsChange ==
    /\ pc \in Terminal
    /\ hasKey' = ~hasKey
    /\ UNCHANGED <<sampleOk, uploaded, df, messages, pc, trigger, prompt,
                   widgets, events, executed, local_vars, prior>>

\* sample_data.csv appears or disappears between two runs.
SampleFileChange ==
    /\ pc \in Terminal
    /\ sampleOk' = ~sampleOk
    /\ UNCHANGED <<hasKey, uploaded, df, messages, pc, trigger, prompt,
                   widgets, events, executed, local_vars, prior>>

\* ------------------------------------------------------------ the script run

\* Mutant: the except clause reports the missing key but does not stop.
ConfigureNoStop ==
    /\ pc = "config"
    /\ pc' = "upload"
    /\ events' = IF hasKey THEN events ELSE events \cup {"st.error:config"}
    /\ UNCHANGED <<hasKey, sampleOk, uploaded, df, messages, trigger, prompt,
                   widgets, executed, local_vars, prior>>

\* Lines 17-23: genai.configure with the secret; KeyError -> st.error,
\* st.info, st.stop().  A stopped run renders no widget, so the uploader's
\* file is dropped with the widget.
Configure ==
    /\ pc = "config"
    /\ IF hasKey
       THEN /\ pc' = "upload"
            /\ UNCHANGED <<events, uploaded>>
       ELSE /\ pc' = "stopped"
            /\ events' = events \cup {"st.error:config"}
            /\ uploaded' = NoFile
    /\ UNCHANGED <<hasKey, sampleOk, df, messages, trigger, prompt, widgets,
                   executed, local_vars, prior>>

\* Lines 107-120: with a file in the uploader the file is parsed again on
\* every run; success replaces the table and empties the transcript, an
\* exception is caught, reported with st.error and sets the table to None.
UploadHandler ==
    /\ pc = "upload"
    /\ pc' = "sample"
    /\ widgets' = widgets \cup {"uploader"}
    /\ IF uploaded = NoFile
       THEN UNCHANGED <<df, messages, events>>
       ELSE IF Readable(uploaded)
            THEN /\ df' = TableOf(uploaded)
                 /\ events' = events \cup {"st.success:upload"}
                 /\ messages' = TranscriptAfterLoad(messages)
            ELSE /\ df' = None
                 /\ events' = events \cup {"read_upload:raised", "st.error:upload"}
                 /\ UNCHANGED messages
    /\ UNCHANGED <<hasKey, sampleOk, uploaded, trigger, prompt, executed,
                   local_vars, prior>>

\* Lines 123-126: st.button is True only in the run its click started.
\* pd.read_csv("sample_data.csv") is not inside a try: when it raises, the
\* run ends there with the exception, before any assignment.
SampleHandler ==
    /\ pc = "sample"
    /\ widgets' = widgets \cup {"button"}
    /\ IF trigger # "sample"
       THEN /\ pc' = "main"
            /\ UNCHANGED <<df, messages, events>>
       ELSE IF sampleOk
            THEN /\ pc' = "main"
                 /\ df' = SampleTable
                 /\ events' = events \cup {"st.success:sample"}
                 /\ messages' = TranscriptAfterLoad(messages)
            ELSE /\ pc' = "crashed"
                 /\ events' = events \cup {"read_sample:raised", "uncaught"}
                 /\ UNCHANGED <<df, messages>>
    /\ UNCHANGED <<hasKey, sampleOk, uploaded, trigger, prompt, executed,
                   local_vars, prior>>

\* Lines 146-175 for a submitted question: the user record is appended, then
\* get_ai_response's return value is unpacked into three names.  A value of
\* another length makes the unpacking raise ValueError, which nothing
\* catches: the run ends with the user record appended and no assistant
\* record.
Turn(gen, outcome) ==
    LET withUser == Append(messages, UserRecord(prompt))
        ret == get_ai_response(gen, outcome)
    IN  IF Len(ret) # 3
        THEN /\ messages' = withUser
             /\ pc' = "crashed"
             /\ events' = events \cup
                    ({"generate_content", "uncaught"}
                       \cup (IF gen.raised THEN {"generate_content:raised"} ELSE {}))
             /\ UNCHANGED <<executed, local_vars>>
        ELSE LET branch == Branch(ret[1], ret[2])
             IN  /\ messages' = Append(withUser, AssistantRecord(Summary(branch), ret[3]))
                 /\ pc' = "done"
                 /\ events' = events \cup {"generate_content"}
                        \cup (IF gen.raised
                              THEN {"generate_content:raised"}
                              ELSE {"exec"} \cup
                                   (IF outcome.raised THEN {"exec:raised"} ELSE {}))
                        \cup Rendered(branch)
                 /\ executed' = IF gen.raised THEN executed
                                ELSE Append(executed, code_to_execute(gen))
                 /\ local_vars' = IF gen.raised THEN local_vars
                                  ELSE [fig |-> outcome.fig, result |-> outcome.result]

\* Lines 129-178: without a table only the hint is shown; with a table the
\* preview, the transcript and the chat input are rendered, and a submitted
\* question is handled.
Main ==
    /\ pc = "main"
    /\ IF df = None
       THEN /\ pc' = "done"
            /\ events' = events \cup {"st.info:nodata"}
            /\ UNCHANGED <<messages, widgets, executed, local_vars>>
       ELSE /\ widgets' = widgets \cup {"chat_input"}
            /\ IF prompt = None
               THEN /\ pc' = "done"
                    /\ UNCHANGED <<messages, events, executed, local_vars>>
               ELSE \E gen \in Generations :
                        \E outcome \in ExecOutcomes : Turn(gen, outcome)
    /\ UNCHANGED <<hasKey, sampleOk, uploaded, df, trigger, prompt, prior>>

Next ==
    \/ ChangeFile
    \/ ClickSample
    \/ SubmitChat
    \/ Rerun
    \/ SecretsChange
    \/ SampleFileChange
    \/ Configure
    \/ UploadHandler
    \/ SampleHandler
    \/ Main

Spec == Init /\ [][Next]_vars

\* ------------------------------------------------------------------ claims

IsPrefix(s, t) == Len(s) <= Len(t) /\ SubSeq(t, 1, Len(s)) = s

LastMessage == messages[Len(messages)]

\* exec ran in this run and returned normally / ran at all.
ExecRan == "exec" \in events
ExecReturned == ExecRan /\ "exec:raised" \notin events

\* The page shows exactly the output of one branch.
OnlyRendered(branch) ==
    events \cap {"st.plotly_chart", "st.write:result", "st.error:turn"} = Rendered(branch)

\* C1: when the remote model call fails, get_ai_response does not raise and
\* the question turn completes on the failure branch instead of ending with
\* an exception.
C1_GenerationFailureTakesFailureBranch ==
    "generate_content:raised" \in events =>
        /\ pc = "done"
        /\ "uncaught" \notin events
        /\ OnlyRendered("failure")

\* C2: when the generated code raises, the page takes the failure branch
\* (error shown, the generic summary stored) and never the result or the
\* chart branch.
C2_ExecutionFailureTakesFailureBranch ==
    (ExecRan /\ "exec:raised" \in events) =>
        /\ OnlyRendered("failure")
        /\ LastMessage.content = FailureSummary

\* C3: immediately after a table was loaded by the upload handler or by the
\* load-sample handler, the transcript is empty, whatever it was before.
C3_LoadEmptiesTranscript ==
    /\ (pc = "sample" /\ "st.success:upload" \in events) => messages = <<>>
    /\ (pc = "main" /\ "st.success:sample" \in events) => messages = <<>>

C3_Witness ==
    /\ pc = "sample"
    /\ "st.success:upload" \in events
    /\ prior.messages # <<>>
    /\ df # prior.df
    /\ messages = <<>>

\* C4: a run that handles a question (no new upload, no load-sample click)
\* and ends with the table it started with keeps every earlier record in
\* place and in order: the transcript at the start of the run is a prefix of
\* the transcript at its end.
C4_QuestionRunOnlyAppends ==
    (trigger = "chat" /\ pc = "done" /\ df = prior.df) =>
        IsPrefix(prior.messages, messages)

\* C5: every question asked with a table loaded appends one user record and
\* then one assistant record, for every outcome of the turn; after a run no
\* user record is left without the assistant record that follows it.
C5_EveryQuestionGetsItsAnswer ==
    pc \in Terminal =>
        \A i \in 1..Len(messages) :
            messages[i].role = "user" =>
                /\ i < Len(messages)
                /\ messages[i + 1].role = "assistant"

\* C6: a failed load, of the uploaded file or of the sample file, is reported
\* without raising and leaves the session table None.
C6_FailedLoadClearsTable ==
    /\ (pc = "sample" /\ "read_upload:raised" \in events) =>
            df = None /\ "st.error:upload" \in events
    /\ "read_sample:raised" \in events =>
            df = None /\ "uncaught" \notin events

\* C7 as stated: whenever the executed code assigned a chart object to fig,
\* the outcome is the chart branch, never the result branch.
C7_ChartSlotTakesChartBranch ==
    (ExecRan /\ local_vars.fig = "object") =>
        /\ OnlyRendered("chart")
        /\ LastMessage.content = ChartSummary

\* C7 amended: whenever the executed code returned without raising and left
\* a chart object in fig, the outcome is the chart branch and never the
\* result branch, also when the code assigned result as well.
C7_ChartSlotTakesChartBranchUnlessRaised ==
    (ExecReturned /\ local_vars.fig = "object") =>
        /\ OnlyRendered("chart")
        /\ LastMessage.content = ChartSummary

C7_Witness ==
    /\ ExecReturned
    /\ local_vars.fig = "object"
    /\ local_vars.result # "unset"
    /\ "st.plotly_chart" \in events

\* C8: when the executed code returns without raising and assigned neither
\* fig nor result, the outcome is the failure branch and the assistant record
\* of the turn carries exactly the code text that was executed.
C8_NoSlotTakesFailureBranchAndKeepsCode ==
    (ExecReturned /\ local_vars = NoLocals) =>
        /\ OnlyRendered("failure")
        /\ LastMessage = AssistantRecord(FailureSummary, executed[1])

C8_Witness ==
    /\ ExecReturned
    /\ local_vars = NoLocals
    /\ executed = <<(<<NL, CODE, NL>>)>>
    /\ "st.error:turn" \in events

\* What the "View Generated Code" expander shows for a record (lines
\* 141-143): the record's code.
ExpanderCode(m) == m.code

\* C9: in every turn in which code was executed, whether it returned or
\* raised, the code stored in the turn's assistant record, which the
\* expander shows, is the text that was passed to exec.
C9_StoredCodeIsExecutedCode ==
    ExecRan =>
        /\ Len(executed) = 1
        /\ LastMessage.role = "assistant"
        /\ LastMessage.hasCode
        /\ ExpanderCode(LastMessage) = executed[1]

C9_Witness ==
    /\ ExecRan
    /\ "exec:raised" \in events
    /\ executed = <<(<<NL, CODE, NL>>)>>
    /\ LastMessage.code = <<NL, CODE, NL>>

\* C10: a run that finds the credential missing halts at the configuration
\* step: the handlers below it are only reached with the credential, and the
\* halted run has loaded no table, called no model, executed nothing and
\* appended nothing.
C10_MissingKeyHaltsTheRun ==
    /\ pc \in {"upload", "sample", "main"} => hasKey
    /\ "st.error:config" \in events =>
            /\ pc = "stopped"
            /\ events = {"st.error:config"}
            /\ widgets = {}
            /\ executed = <<>>
            /\ df = prior.df
            /\ messages = prior.messages

C10_Witness ==
    /\ pc = "stopped"
    /\ ~hasKey
    /\ trigger = "chat"
    /\ prior.df # None
    /\ prior.messages # <<>>

====
